---- MODULE Spec2Model ----
(***************************************************************************)
(* State-machine model of the RAG chatbot backend:                         *)
(*   RAGBackend/rag_chatbot.py   RAGChatbot and the session store          *)
(*   RAGBackend/api.py           the FastAPI handlers                      *)
(*   RAGBackend/pdf_processor.py PDFProcessor (ingestion, per-session      *)
(*                               deletion, statistics)                     *)
(*                                                                         *)
(* Text is modelled as a sequence of one-character strings, so that        *)
(* str.strip() is a real conversion.  The external providers (completion   *)
(* model, vector index search, object storage, PDF parser) are the         *)
(* environment: each of their calls returns a nondeterministic value from   *)
(* a small set, or raises.                                                  *)
(***************************************************************************)
EXTENDS Integers, Sequences, FiniteSets, TLC

\* ------------------------------------------------------------------ bounds

MaxTurns == 2      \* chat turns the histories of all sessions hold together
MaxK == 2          \* largest k a chat request asks for
MaxChunks == 2     \* chunks one uploaded document splits into

\* ------------------------------------------------------------------ values

None == "None"                  \* Python None where a session id is expected
Null == <<"null">>              \* Python None where a text is expected
NoBot == "none"                 \* no RAGChatbot reference

Sids == {"s1"}                  \* a session id a client makes up
GenIds == {"u1"}                \* an id uuid.uuid4() produces
AllIds == Sids \cup GenIds      \* clients also send back the id they were given
Reqs == {"r1", "r2"}            \* connections a chat request arrives on
Insts == {"bot1", "bot2", "bot3"}  \* RAGChatbot objects
RecIds == {1, 2}                \* ids the collection gives its records

Msgs == {<<"p">>, <<"q">>}                  \* request.message
RewriteOutputs == {<<" ", "p">>, <<"w">>}   \* result.content of the rewrite call
Answers == {<<"x">>, <<"y">>}               \* result.content of the generation call

InFlight == {"create", "rewrite", "retrieve", "generate"}

VARIABLES
    conversation_sessions,  \* _conversation_sessions: session id -> RAGChatbot
    chat_history,           \* RAGChatbot -> self.chat_history
    req,                    \* per connection: the locals of api.chat / RAGChatbot.chat
    index,                  \* records of the shared Chroma collection
    docs_files,             \* files under docs/<session_id>/
    cloud_files,            \* raw resources under rag_pdfs/<session_id>/
    last                    \* what the handler that has just returned answers

vars == <<conversation_sessions, chat_history, req, index, docs_files,
          cloud_files, last>>

\* ------------------------------------------------------------------ text

IsSpace(c) == c = " "

RECURSIVE LStrip(_)
LStrip(s) == IF s # <<>> /\ IsSpace(Head(s)) THEN LStrip(Tail(s)) ELSE s

RECURSIVE RStrip(_)
RStrip(s) ==
    IF s # <<>> /\ IsSpace(s[Len(s)]) THEN RStrip(SubSeq(s, 1, Len(s) - 1)) ELSE s

\* str.strip()
Strip(s) == RStrip(LStrip(s))

HumanMessage(content) == [role |-> "human", content |-> content]
AIMessage(content) == [role |-> "ai", content |-> content]

\* ------------------------------------------------------------------ helpers

Without(f, k) == [x \in DOMAIN f \ {k} |-> f[x]]

\* All sequences of distinct elements of S that have length n.
RECURSIVE Arrangements(_, _)
Arrangements(S, n) ==
    IF n = 0 THEN {<<>>}
    ELSE UNION {{<<x>> \o t : t \in Arrangements(S \ {x}, n - 1)} : x \in S}

Range(s) == {s[i] : i \in DOMAIN s}

RECURSIVE TotalLen(_, _)
TotalLen(hist, D) ==
    IF D = {} THEN 0
    ELSE LET i == CHOOSE x \in D : TRUE IN Len(hist[i]) + TotalLen(hist, D \ {i})

IdleReq ==
    [pc |-> "idle", requested |-> None, session_id |-> None, message |-> Null, k |-> 0,
     verbose |-> FALSE, chatbot |-> NoBot, search_question |-> Null,
     docs |-> <<>>, calls |-> <<>>, existed0 |-> FALSE, history0 |-> <<>>]

NoRet == [op |-> "none"]

\* ------------------------------------------------------------------ scheduling

\* Every handler of api.py is an `async def` whose body awaits nothing: the
\* blocking calls (RAGChatbot(), llm.invoke, retriever.invoke, cloudinary) run on
\* the event loop of the single uvicorn process, so a handler starts only when
\* no other handler is in progress.
LoopFree == last = NoRet /\ \A r \in Reqs : req[r].pc = "idle"

\* ------------------------------------------------------------------ session store

\* Objects no longer referenced by the store or by a running request are
\* garbage: their history is unobservable.
Referenced(store, rq) ==
    {store[s] : s \in DOMAIN store} \cup ({rq[r].chatbot : r \in Reqs} \ {NoBot})

Collect(hist, store, rq) == [i \in DOMAIN hist \cap Referenced(store, rq) |-> hist[i]]

\* Mutant: the membership test never finds the id.
KnownNever(sid) == FALSE

\* The membership test of get_chatbot: session_id in _conversation_sessions.
Known(sid) == sid \in DOMAIN conversation_sessions

\* RAGChatbot.get_history_length
GetHistoryLength(i) == Len(chat_history[i])

\* get_all_sessions
GetAllSessions == DOMAIN conversation_sessions

\* get_session_info: the summary, or Null
GetSessionInfo(sid) ==
    IF sid \in DOMAIN conversation_sessions
        THEN [session_id |-> sid,
              history_length |-> GetHistoryLength(conversation_sessions[sid]),
              active |-> TRUE]
        ELSE Null

\* Mutant: the rewrite call is made whatever the history holds.
ContextualizeAlways(rq, hist) ==
    [rq EXCEPT !.pc = "rewrite", !.calls = Append(rq.calls, "rewrite")]

\* RAGChatbot._contextualize_question up to its completion call: with an empty
\* history the message is the search question and retrieval is issued at once.
Contextualize(rq, hist) ==
    IF hist = <<>>
        THEN [rq EXCEPT !.search_question = rq.message,
                        !.pc = "retrieve",
                        !.calls = Append(rq.calls, "retrieve")]
        ELSE [rq EXCEPT !.pc = "rewrite",
                        !.calls = Append(rq.calls, "rewrite")]

\* Mutant: the human turn is already in the history when the turn fails.
ChatFailedKeepsTurn(r) ==
    /\ req' = [req EXCEPT ![r].pc = "failed", ![r].chatbot = NoBot]
    /\ last' = [op |-> "chat", status |-> 500]
    /\ chat_history' =
           Collect([i \in DOMAIN chat_history |->
                       IF i = req[r].chatbot
                          THEN Append(chat_history[i], HumanMessage(req[r].message))
                          ELSE chat_history[i]],
                   conversation_sessions, req')

\* The except branch of api.chat: HTTPException(status_code=500).
ChatFailed(r) ==
    /\ req' = [req EXCEPT ![r].pc = "failed", ![r].chatbot = NoBot]
    /\ last' = [op |-> "chat", status |-> 500]
    /\ chat_history' = Collect(chat_history, conversation_sessions, req')

\* ------------------------------------------------------------------ POST /chat

\* api.chat up to the membership test of get_chatbot.  (k and verbose are drawn
\* where RAGChatbot.chat first reads them.)
ChatStart(r, sid, msg) ==
    /\ LoopFree
    /\ TotalLen(chat_history, DOMAIN chat_history) < 2 * MaxTurns
    /\ \E id \in AllIds :
        /\ IF sid = None
              THEN id \in GenIds \ DOMAIN conversation_sessions
              ELSE id = sid
        /\ LET rq == [IdleReq EXCEPT !.requested = sid, !.session_id = id,
                                     !.message = msg]
           IN  IF Known(id)
                  THEN LET bot == conversation_sessions[id]
                       IN  req' = [req EXCEPT ![r] =
                               Contextualize([rq EXCEPT !.chatbot = bot,
                                                  !.existed0 = TRUE,
                                                  !.history0 = chat_history[bot]],
                                             chat_history[bot])]
                  ELSE req' = [req EXCEPT ![r] = [rq EXCEPT !.pc = "create"]]
    /\ UNCHANGED <<conversation_sessions, chat_history, index, docs_files,
                   cloud_files, last>>

\* get_chatbot for an id the membership test did not find: RAGChatbot(auto_ingest=True)
\* is built (it may raise), stored under the id, and the store is read back.
ChatCreate(r, ok) ==
    /\ req[r].pc = "create"
    /\ IF ok
          THEN LET sid == req[r].session_id
                   bot == CHOOSE b \in Insts \ Referenced(conversation_sessions, req) : TRUE
                   store == (sid :> bot) @@ conversation_sessions
               IN  /\ conversation_sessions' = store
                   /\ req' = [req EXCEPT ![r] =
                          Contextualize([req[r] EXCEPT !.chatbot = store[sid]],
                                        ((bot :> <<>>) @@ chat_history)[store[sid]])]
                   /\ chat_history' =
                          Collect((bot :> <<>>) @@ chat_history, store, req')
                   /\ UNCHANGED last
          ELSE /\ ChatFailed(r)
               /\ UNCHANGED conversation_sessions
    /\ UNCHANGED <<index, docs_files, cloud_files>>

\* The rewrite completion call returns (or raises).
ChatRewrite(r, ok, out) ==
    /\ req[r].pc = "rewrite"
    /\ IF ok
          THEN /\ req' = [req EXCEPT ![r].search_question = Strip(out),
                                     ![r].pc = "retrieve",
                                     ![r].calls = Append(req[r].calls, "retrieve")]
               /\ UNCHANGED <<last, chat_history>>
          ELSE ChatFailed(r)
    /\ UNCHANGED <<conversation_sessions, index, docs_files, cloud_files>>

\* Mutant: the search is filtered to the records of the session.
RetrieverInvokeScoped(rq, k) ==
    LET mine == {d \in index : d.session_id = rq.session_id}
    IN  Arrangements(mine, IF k < Cardinality(mine) THEN k ELSE Cardinality(mine))

\* Mutant: the search ignores k and returns the whole collection.
RetrieverInvokeAll(rq, k) == Arrangements(index, Cardinality(index))

\* retriever.invoke(search_question) on self.db.as_retriever(search_kwargs={"k": k}):
\* the possible results, each the min(k, size) nearest records of the collection in
\* rank order.  The ranking is the index's business: any order of any records.
RetrieverInvoke(rq, k) ==
    Arrangements(index, IF k < Cardinality(index) THEN k ELSE Cardinality(index))

\* The retrieval query returns (or raises).
ChatRetrieve(r, k, ok, docs) ==
    /\ req[r].pc = "retrieve"
    /\ IF ok
          THEN /\ docs \in RetrieverInvoke(req[r], k)
               /\ req' = [req EXCEPT ![r].k = k,
                                     ![r].docs = docs,
                                     ![r].pc = "generate",
                                     ![r].calls = Append(req[r].calls, "generate")]
               /\ UNCHANGED <<last, chat_history>>
          ELSE /\ docs = <<>>
               /\ k = 1
               /\ ChatFailed(r)
    /\ UNCHANGED <<conversation_sessions, index, docs_files, cloud_files>>

\* Mutant: the ai turn is appended before the human turn.
UpdateHistorySwapped(hist, rq, answer) ==
    Append(Append(hist, AIMessage(answer)), HumanMessage(rq.message))

\* Mutant: the human turn stores the rewritten search question.
UpdateHistoryStoresRewrite(hist, rq, answer) ==
    Append(Append(hist, HumanMessage(rq.search_question)), AIMessage(answer))

\* Mutant: only the human turn is appended.
UpdateHistoryHumanOnly(hist, rq, answer) == Append(hist, HumanMessage(rq.message))

\* Step 4 of RAGChatbot.chat: the two appends to self.chat_history.
UpdateHistory(hist, rq, answer) ==
    Append(Append(hist, HumanMessage(rq.message)), AIMessage(answer))

\* Mutant: a verbose response always carries the search question.
ResponseKeepsQuestion(rq, verbose, answer) ==
    IF verbose
        THEN [message |-> rq.message, answer |-> answer,
              session_id |-> rq.session_id,
              contextualized_question |-> rq.search_question,
              sources |-> rq.docs,
              num_sources |-> Len(rq.docs)]
        ELSE [message |-> rq.message, answer |-> answer,
              session_id |-> rq.session_id]

\* Step 5 of RAGChatbot.chat and the session_id api.chat adds.  The fields a
\* non-verbose response leaves out are the ones ChatResponse reports as None.
Response(rq, verbose, answer) ==
    IF verbose
        THEN [message |-> rq.message, answer |-> answer,
              session_id |-> rq.session_id,
              contextualized_question |->
                  IF rq.search_question # rq.message THEN rq.search_question ELSE Null,
              sources |-> rq.docs,
              num_sources |-> Len(rq.docs)]
        ELSE [message |-> rq.message, answer |-> answer,
              session_id |-> rq.session_id]

\* The generation completion call returns (or raises); on success the history is
\* updated and the response returned.
ChatGenerate(r, verbose, ok, answer) ==
    /\ req[r].pc = "generate"
    /\ IF ok
          THEN LET bot == req[r].chatbot
               IN  /\ req' = [req EXCEPT ![r].pc = "done", ![r].chatbot = NoBot,
                                         ![r].verbose = verbose]
                   /\ last' = [op |-> "chat", status |-> 200,
                               body |-> Response(req[r], verbose, answer)]
                   /\ chat_history' =
                          Collect([chat_history EXCEPT ![bot] =
                                       UpdateHistory(@, req[r], answer)],
                                  conversation_sessions, req')
          ELSE /\ verbose = FALSE
               /\ ChatFailed(r)
    /\ UNCHANGED <<conversation_sessions, index, docs_files, cloud_files>>

\* The answer of the handler that returned is sent; its frame is gone.
Respond ==
    /\ last # NoRet
    /\ last' = NoRet
    /\ req' = [r \in Reqs |-> IdleReq]
    /\ UNCHANGED <<conversation_sessions, chat_history, index, docs_files,
                   cloud_files>>

\* ------------------------------------------------------------------ session commands

\* Mutant: success is reported for an unknown id too.
ClearSessionHistoryAlways(sid) ==
    IF sid \in DOMAIN conversation_sessions
        THEN [ok |-> TRUE,
              history |-> [chat_history EXCEPT ![conversation_sessions[sid]] = <<>>]]
        ELSE [ok |-> TRUE, history |-> chat_history]

\* clear_session_history (and RAGChatbot.clear_history)
ClearSessionHistory(sid) ==
    IF sid \in DOMAIN conversation_sessions
        THEN [ok |-> TRUE,
              history |-> [chat_history EXCEPT ![conversation_sessions[sid]] = <<>>]]
        ELSE [ok |-> FALSE, history |-> chat_history]

\* POST /chat/clear/{session_id}
ClearHistory(sid) ==
    /\ LoopFree
    /\ LET out == ClearSessionHistory(sid)
       IN  /\ chat_history' = out.history
           /\ last' = [op |-> "clear", sid |-> sid, ok |-> out.ok]
    /\ UNCHANGED <<conversation_sessions, req, index, docs_files, cloud_files>>

\* Mutant: the whole store is emptied.
DeleteSessionClearsStore(sid) ==
    IF sid \in DOMAIN conversation_sessions
        THEN [ok |-> TRUE, store |-> [x \in {} |-> 0], index |-> index]
        ELSE [ok |-> FALSE, store |-> conversation_sessions, index |-> index]

\* Mutant: the delete cascades to the session's records of the collection.
DeleteSessionCascades(sid) ==
    IF sid \in DOMAIN conversation_sessions
        THEN [ok |-> TRUE, store |-> Without(conversation_sessions, sid),
              index |-> {d \in index : d.session_id # sid}]
        ELSE [ok |-> FALSE, store |-> conversation_sessions, index |-> index]

\* Mutant: the entry is deleted without the membership test, and the delete is
\* reported as done.
DeleteSessionUnchecked(sid) ==
    [ok |-> TRUE, store |-> Without(conversation_sessions, sid), index |-> index]

\* delete_session: the entry is removed from _conversation_sessions and nothing
\* else is touched; `index` is the collection as the call leaves it.
DeleteSession(sid) ==
    IF sid \in DOMAIN conversation_sessions
        THEN [ok |-> TRUE, store |-> Without(conversation_sessions, sid),
              index |-> index]
        ELSE [ok |-> FALSE, store |-> conversation_sessions, index |-> index]

\* list_session_files_cloudinary followed by delete_from_cloudinary on each file:
\* both swallow their exceptions, a failed listing lists nothing.
CloudinaryCleanup(sid, ok) ==
    LET mine == {f \in cloud_files : f[1] = sid}
    IN  IF ok THEN [files |-> cloud_files \ mine, deleted |-> Cardinality(mine)]
              ELSE [files |-> cloud_files, deleted |-> 0]

\* Mutant: the PDFs are unlinked and the collection is left alone.
PdfDeleteSessionFilesKeepsIndex(sid, outcome) ==
    LET mine == {f \in docs_files : f[1] = sid}
    IN  CASE outcome = "ok" ->
                 [files |-> docs_files \ mine, index |-> index,
                  deleted |-> Cardinality(mine), embeddings |-> 0]
          [] outcome = "fs_fail" ->
                 [files |-> docs_files, index |-> index, deleted |-> 0,
                  embeddings |-> 0]
          [] outcome = "db_fail" ->
                 [files |-> docs_files \ mine, index |-> index, deleted |-> 0,
                  embeddings |-> 0]

\* Mutant: the delete is not filtered by session_id and empties the collection.
PdfDeleteSessionFilesUnfiltered(sid, outcome) ==
    LET mine == {f \in docs_files : f[1] = sid}
    IN  CASE outcome = "ok" ->
                 [files |-> docs_files \ mine, index |-> {},
                  deleted |-> Cardinality(mine), embeddings |-> Cardinality(index)]
          [] outcome = "fs_fail" ->
                 [files |-> docs_files, index |-> index, deleted |-> 0,
                  embeddings |-> 0]
          [] outcome = "db_fail" ->
                 [files |-> docs_files \ mine, index |-> index, deleted |-> 0,
                  embeddings |-> 0]

\* PDFProcessor.delete_session_files.  outcome "ok": the session's PDFs are
\* unlinked and its records deleted from the collection; "fs_fail": unlink raises;
\* "db_fail": the files are gone and db.get or db.delete raises.  A raise is
\* swallowed and reported as 0 files.  `embeddings` is the number of records
\* deleted, which the method prints.
PdfDeleteSessionFiles(sid, outcome) ==
    LET mine == {f \in docs_files : f[1] = sid}
        recs == {d \in index : d.session_id = sid}
    IN  CASE outcome = "ok" ->
                 [files |-> docs_files \ mine, index |-> index \ recs,
                  deleted |-> Cardinality(mine), embeddings |-> Cardinality(recs)]
          [] outcome = "fs_fail" ->
                 [files |-> docs_files, index |-> index, deleted |-> 0,
                  embeddings |-> 0]
          [] outcome = "db_fail" ->
                 [files |-> docs_files \ mine, index |-> index, deleted |-> 0,
                  embeddings |-> 0]

DeleteOutcomes == {"ok", "fs_fail", "db_fail"}

\* Mutant: deleted embeddings also count as something found.
RemoveSessionCountsEmbeddings(sid, cloudOk, outcome) ==
    /\ LoopFree
    /\ LET del == DeleteSession(sid)
           cloud == CloudinaryCleanup(sid, cloudOk)
           pdf == PdfDeleteSessionFiles(sid, outcome)
       IN  /\ conversation_sessions' = del.store
           /\ chat_history' = Collect(chat_history, del.store, req)
           /\ cloud_files' = cloud.files
           /\ docs_files' = pdf.files
           /\ index' = pdf.index
           /\ last' = [op |-> "remove_session", sid |-> sid,
                       status |-> IF del.ok \/ cloud.deleted > 0 \/ pdf.embeddings > 0
                                     THEN 200 ELSE 404,
                       chat_deleted |-> del.ok,
                       files_deleted |-> cloud.deleted,
                       index_after_delete |-> del.index,
                       cloud_ok |-> cloudOk, cleanup |-> outcome,
                       embeddings_deleted |-> pdf.embeddings]
    /\ UNCHANGED req

\* DELETE /chat/session/{session_id}: 404 unless the chat session or a cloud
\* file was deleted.  The fields after files_deleted are not part of the answer:
\* index_after_delete is the collection when delete_session returned, cloud_ok
\* and cleanup tell how the two cleanups ended, embeddings_deleted is the count
\* delete_session_files prints.
RemoveSession(sid, cloudOk, outcome) ==
    /\ LoopFree
    /\ LET del == DeleteSession(sid)
           cloud == CloudinaryCleanup(sid, cloudOk)
           pdf == PdfDeleteSessionFiles(sid, outcome)
       IN  /\ conversation_sessions' = del.store
           /\ chat_history' = Collect(chat_history, del.store, req)
           /\ cloud_files' = cloud.files
           /\ docs_files' = pdf.files
           /\ index' = pdf.index
           /\ last' = [op |-> "remove_session", sid |-> sid,
                       status |-> IF del.ok \/ cloud.deleted > 0 THEN 200 ELSE 404,
                       chat_deleted |-> del.ok,
                       files_deleted |-> cloud.deleted,
                       index_after_delete |-> del.index,
                       cloud_ok |-> cloudOk, cleanup |-> outcome,
                       embeddings_deleted |-> pdf.embeddings]
    /\ UNCHANGED req

\* DELETE /files/{session_id}.  The fields after files_deleted are not part of
\* the answer: cloud_ok and cleanup tell how the two cleanups ended,
\* embeddings_deleted is the count delete_session_files prints.
DeleteSessionFiles(sid, cloudOk, outcome) ==
    /\ LoopFree
    /\ LET cloud == CloudinaryCleanup(sid, cloudOk)
           pdf == PdfDeleteSessionFiles(sid, outcome)
       IN  /\ cloud_files' = cloud.files
           /\ docs_files' = pdf.files
           /\ index' = pdf.index
           /\ last' = [op |-> "delete_files", sid |-> sid, status |-> 200,
                       files_deleted |-> cloud.deleted,
                       cloud_ok |-> cloudOk, cleanup |-> outcome,
                       embeddings_deleted |-> pdf.embeddings]
    /\ UNCHANGED <<conversation_sessions, chat_history, req>>

\* ------------------------------------------------------------------ POST /upload

\* Ids the collection gives n new records.
FreshIds(n) ==
    LET free == RecIds \ {d.id : d \in index}
    IN  {id \in free : Cardinality({x \in free : x < id}) < n}

\* Rank of id among ids, from 0.
Position(id, ids) == Cardinality({x \in ids : x < id})

\* text_splitter.split_text on a text that splits into n chunks: the chunks in
\* text order, each named by its place in the text.
SplitText(n) == [i \in 1..n |-> i]

\* Mutant: the chunks are numbered from 1.
CreateDocumentsFromOne(n, sid, filename) ==
    LET chunks == SplitText(n)
    IN  [i \in 1..Len(chunks) |->
            [content |-> chunks[i], session_id |-> sid, filename |-> filename,
             chunk_index |-> i, total_chunks |-> Len(chunks),
             type |-> "uploaded_pdf"]]

\* PDFProcessor.create_documents: one Document per chunk, in the order of
\* enumerate(chunks).
CreateDocuments(n, sid, filename) ==
    LET chunks == SplitText(n)
    IN  [i \in 1..Len(chunks) |->
            [content |-> chunks[i], session_id |-> sid, filename |-> filename,
             chunk_index |-> i - 1, total_chunks |-> Len(chunks),
             type |-> "uploaded_pdf"]]

\* The record the collection keeps for a Document: content and metadata under a
\* fresh id.
Stored(doc, id) ==
    [id |-> id, content |-> doc.content, session_id |-> doc.session_id,
     filename |-> doc.filename, chunk_index |-> doc.chunk_index,
     total_chunks |-> doc.total_chunks, type |-> doc.type]

\* Mutant: a failed upsert is reported as the number of documents handed in.
AddToVectorStoreCountsFailure(documents, ok) ==
    LET ids == FreshIds(Len(documents))
        idOf(i) == CHOOSE id \in ids : Position(id, ids) = i - 1
    IN  IF ok THEN [index |-> index \cup {Stored(documents[i], idOf(i)) :
                                             i \in 1..Len(documents)},
                    added |-> Len(documents)]
              ELSE [index |-> index, added |-> Len(documents)]

\* PDFProcessor.add_to_vector_store: the collection afterwards and the count
\* returned; an exception of the embedding or the upsert is swallowed into 0.
AddToVectorStore(documents, ok) ==
    LET ids == FreshIds(Len(documents))
        idOf(i) == CHOOSE id \in ids : Position(id, ids) = i - 1
    IN  IF ok THEN [index |-> index \cup {Stored(documents[i], idOf(i)) :
                                             i \in 1..Len(documents)},
                    added |-> Len(documents)]
              ELSE [index |-> index, added |-> 0]

UploadOutcomes == {"ok", "save_fail", "no_text", "add_fail", "cloud_fail"}

\* PDFProcessor.process_uploaded_pdf.  "save_fail": save_uploaded_pdf raises;
\* "no_text": extract_text_from_pdf returns ""; "add_fail": the embedding or the
\* upsert raises.
ProcessUploadedPdf(sid, filename, n, outcome) ==
    LET saved == docs_files \cup {<<sid, filename>>}
        add == AddToVectorStore(CreateDocuments(n, sid, filename),
                                outcome # "add_fail")
    IN  CASE outcome = "save_fail" ->
                 [success |-> FALSE, error |-> "str(e)", chunks_created |-> 0,
                  files |-> docs_files, index |-> index]
          [] outcome = "no_text" ->
                 [success |-> FALSE, error |-> "Failed to extract text from PDF",
                  chunks_created |-> 0, files |-> saved, index |-> index]
          [] OTHER ->
                 IF add.added > 0
                    THEN [success |-> TRUE, error |-> "", chunks_created |-> add.added,
                          files |-> saved, index |-> add.index]
                    ELSE [success |-> FALSE, error |-> "Failed to add to vector store",
                          chunks_created |-> 0, files |-> saved, index |-> add.index]

IsPdf(filename) ==
    /\ Len(filename) >= 4
    /\ SubSeq(filename, Len(filename) - 3, Len(filename)) = <<".", "p", "d", "f">>

\* Path(original_filename).stem for a name that ends in .pdf
Stem(filename) == SubSeq(filename, 1, Len(filename) - 4)

UploadNames == {<<"f", ".", "p", "d", "f">>, <<"f", ".", "t", "x", "t">>}

\* POST /upload: 400 for a name that does not end in .pdf; otherwise the PDF is
\* processed, 500 if that fails, and then backed up to Cloudinary (a failed
\* backup still answers 200).
UploadPdf(sid, filename, n, outcome) ==
    /\ LoopFree
    /\ Cardinality(index) + n <= Cardinality(RecIds)
    /\ IF ~IsPdf(filename)
          THEN /\ last' = [op |-> "upload", sid |-> sid, filename |-> filename,
                           status |-> 400, detail |-> "Only PDF files are allowed",
                           chunks_created |-> 0]
               /\ UNCHANGED <<index, docs_files, cloud_files>>
          ELSE LET result == ProcessUploadedPdf(sid, filename, n, outcome)
               IN  /\ docs_files' = result.files
                   /\ index' = result.index
                   /\ cloud_files' =
                          IF result.success /\ outcome # "cloud_fail"
                             THEN cloud_files \cup {<<sid, Stem(filename)>>}
                             ELSE cloud_files
                   /\ last' = [op |-> "upload", sid |-> sid, filename |-> filename,
                               status |-> IF result.success THEN 200 ELSE 500,
                               detail |-> result.error,
                               chunks_created |-> result.chunks_created]
    /\ UNCHANGED <<conversation_sessions, chat_history, req>>

\* PDFProcessor.get_session_stats
GetSessionStats(sid) ==
    [session_id |-> sid,
     files_count |-> Cardinality({f \in docs_files : f[1] = sid}),
     embeddings_count |-> Cardinality({d \in index : d.session_id = sid})]

\* GET /files/{session_id}: the files Cloudinary lists and the embeddings
\* get_session_stats counts.
ListSessionFiles(sid) ==
    [session_id |-> sid,
     files_count |-> Cardinality({f \in cloud_files : f[1] = sid}),
     embeddings_count |-> GetSessionStats(sid).embeddings_count]

\* ------------------------------------------------------------------ specification

EmptyMap == [x \in {} |-> 0]

Init ==
    /\ conversation_sessions = EmptyMap
    /\ chat_history = EmptyMap
    /\ req = [r \in Reqs |-> IdleReq]
    /\ index = {}
    /\ docs_files = {}
    /\ cloud_files = {}
    /\ last = NoRet

\* The chat service with its storage collaborators (file system, Cloudinary,
\* embedding and upsert) answering without error.
Next ==
    \/ \E r \in Reqs, sid \in AllIds \cup {None}, msg \in Msgs : ChatStart(r, sid, msg)
    \/ \E r \in Reqs, ok \in BOOLEAN : ChatCreate(r, ok)
    \/ \E r \in Reqs, ok \in BOOLEAN, out \in RewriteOutputs : ChatRewrite(r, ok, out)
    \/ \E r \in Reqs, k \in 1..MaxK, ok \in BOOLEAN :
          \E docs \in {<<>>} \cup RetrieverInvoke(req[r], k) :
              ChatRetrieve(r, k, ok, docs)
    \/ \E r \in Reqs, verbose \in BOOLEAN, ok \in BOOLEAN, answer \in Answers :
          ChatGenerate(r, verbose, ok, answer)
    \/ Respond
    \/ \E sid \in AllIds : ClearHistory(sid)
    \/ \E sid \in AllIds : RemoveSession(sid, TRUE, "ok")
    \/ \E sid \in AllIds : DeleteSessionFiles(sid, TRUE, "ok")
    \/ \E sid \in AllIds, filename \in UploadNames, n \in 1..MaxChunks :
          UploadPdf(sid, filename, n, "ok")

Spec == Init /\ [][Next]_vars

\* The upload and deletion handlers with every outcome of the file system, the
\* collection and Cloudinary.  Chat requests are the ones that create a session
\* and then find the retrieval failing, so that sessions exist beside the files.
NextStorage ==
    \/ \E sid \in AllIds, filename \in UploadNames, n \in 0..MaxChunks,
          outcome \in UploadOutcomes :
          UploadPdf(sid, filename, n, outcome)
    \/ \E sid \in AllIds, cloudOk \in BOOLEAN, outcome \in DeleteOutcomes :
          RemoveSession(sid, cloudOk, outcome)
    \/ \E sid \in AllIds, cloudOk \in BOOLEAN, outcome \in DeleteOutcomes :
          DeleteSessionFiles(sid, cloudOk, outcome)
    \/ \E r \in Reqs, sid \in AllIds \cup {None}, msg \in Msgs : ChatStart(r, sid, msg)
    \/ \E r \in Reqs, ok \in BOOLEAN : ChatCreate(r, ok)
    \/ \E r \in Reqs : ChatRetrieve(r, 1, FALSE, <<>>)
    \/ Respond

SpecStorage == Init /\ [][NextStorage]_vars

\* ------------------------------------------------------------------ properties

\* The history the session store holds for sid; <<>> for an unknown id.
HistoryOf(sid) ==
    IF sid \in DOMAIN conversation_sessions
        THEN chat_history[conversation_sessions[sid]]
        ELSE <<>>

IsPrefix(s, t) == Len(s) <= Len(t) /\ SubSeq(t, 1, Len(s)) = s

\* The external calls of one turn, in order, for the history the turn found.
ExpectedCalls(history) ==
    IF history = <<>> THEN <<"retrieve", "generate">>
                      ELSE <<"rewrite", "retrieve", "generate">>

\* C1: a chat call that succeeds leaves its session's history equal to the
\* history it found followed by exactly two entries, the human turn with the
\* original message and then the ai turn with the answer this call returns,
\* whatever retrieval returned; so successive calls give
\* [human:Q1, ai:A1, human:Q2, ai:A2].
C1_HistoryAppend ==
    \A r \in Reqs :
        req[r].pc = "done" =>
            /\ last.op = "chat" /\ last.status = 200
            /\ req[r].session_id \in DOMAIN conversation_sessions
            /\ HistoryOf(req[r].session_id) =
                   req[r].history0 \o <<[role |-> "human", content |-> req[r].message],
                                        [role |-> "ai", content |-> last.body.answer]>>

\* The second successful turn of a session, with no chunk retrieved.
C1_Witness ==
    \E r \in Reqs :
        /\ req[r].pc = "done"
        /\ Len(req[r].history0) = 2
        /\ req[r].docs = <<>>
        /\ Len(HistoryOf(req[r].session_id)) = 4

\* C2: when a chat turn fails (in building the session, the rewrite call, the
\* retrieval query or the generation call) the caller gets a failure and the
\* session's history is what it was before the call: nothing was appended.
C2_FailureKeepsHistory ==
    \A r \in Reqs :
        req[r].pc = "failed" =>
            /\ last = [op |-> "chat", status |-> 500]
            /\ HistoryOf(req[r].session_id) = req[r].history0
            /\ req[r].existed0 => req[r].session_id \in DOMAIN conversation_sessions

\* A turn on a session with history fails in its generation call.
C2_Witness ==
    \E r \in Reqs :
        /\ req[r].pc = "failed"
        /\ req[r].calls = <<"rewrite", "retrieve", "generate">>
        /\ req[r].history0 # <<>>

\* C3: a chat turn that finds an empty history makes no rewrite call, searches
\* with the raw message, and reports contextualized_question null when verbose.
C3_EmptyHistoryShortCircuit ==
    \A r \in Reqs :
        (req[r].pc \in {"retrieve", "generate", "done", "failed"}
            /\ req[r].history0 = <<>>) =>
            /\ \A i \in DOMAIN req[r].calls : req[r].calls[i] # "rewrite"
            /\ req[r].pc \in {"retrieve", "generate", "done"} =>
                   req[r].search_question = req[r].message
            /\ (req[r].pc = "done" /\ req[r].verbose) =>
                   last.body.contextualized_question = Null

\* A verbose first turn has completed.
C3_Witness ==
    \E r \in Reqs :
        /\ req[r].pc = "done"
        /\ req[r].verbose
        /\ req[r].history0 = <<>>
        /\ last.body.contextualized_question = Null

\* C4: a turn issues its external calls at most once each and in the order
\* rewrite (exactly when the history is non-empty), retrieval, generation; a
\* failed turn has made only a prefix of them; and no history entry ever holds
\* the text of a rewrite output.
C4_CallsOnceInOrder ==
    /\ \A r \in Reqs :
        /\ IsPrefix(req[r].calls, ExpectedCalls(req[r].history0))
        /\ req[r].pc = "done" => req[r].calls = ExpectedCalls(req[r].history0)
        /\ req[r].pc \in {"rewrite", "retrieve", "generate"} =>
               req[r].calls # <<>> /\ req[r].calls[Len(req[r].calls)] = req[r].pc
        /\ req[r].pc \in {"idle", "create"} => req[r].calls = <<>>
    /\ \A i \in DOMAIN chat_history : \A j \in DOMAIN chat_history[i] :
        chat_history[i][j].content \in Msgs \cup Answers

\* A turn whose rewrite call returned a new question has completed.
C4_Witness ==
    \E r \in Reqs :
        /\ req[r].pc = "done"
        /\ req[r].calls = <<"rewrite", "retrieve", "generate">>
        /\ req[r].search_question \notin Msgs

\* What the session store shows of sid: whether it exists, and its history.
SessionView(sid) == <<sid \in DOMAIN conversation_sessions, HistoryOf(sid)>>

\* The session ids the handler at work in the state names.
Acting ==
    {req[r].session_id : r \in {x \in Reqs : req[x].pc # "idle"}}
        \cup (IF last.op \in {"clear", "remove_session", "delete_files", "upload"}
                 THEN {last.sid} ELSE {})

\* C5: sessions are isolated: a step of a chat, clear or delete handler changes
\* the existence and the history of no session but the one the handler names.
C5_SessionIsolation ==
    [][\A sid \in AllIds : SessionView(sid)' # SessionView(sid) => sid \in Acting']_vars

\* A session has been deleted while another one holds a history.
C5_Witness ==
    /\ last.op = "remove_session"
    /\ last.chat_deleted
    /\ \E sid \in AllIds \ {last.sid} : HistoryOf(sid) # <<>>

\* C6: retrieval is not scoped by session: every record carries the session id
\* of its ingest, and a retrieval that asks for at least as many records as the
\* index holds returns all of them, other sessions' records included.
C6_RetrievalUnscoped ==
    /\ \A d \in index : d.session_id \in AllIds
    /\ \A r \in Reqs :
        (req[r].pc = "generate" /\ Cardinality(index) <= req[r].k) =>
            Range(req[r].docs) = index

\* A turn has retrieved a chunk ingested under another session id.
C6_Witness ==
    \E r \in Reqs :
        /\ req[r].pc = "generate"
        /\ \E i \in DOMAIN req[r].docs : req[r].docs[i].session_id # req[r].session_id

\* C7: two concurrent chat requests for one id that is not in the store race in
\* get-or-create: while the first is between its membership test and its write
\* to the store, the second can take the membership test for the same id.
C7_CreationRace ==
    \A r1 \in Reqs, r2 \in Reqs :
        (r1 # r2 /\ req[r1].pc = "create" /\ req[r2].pc = "idle") =>
            ENABLED (\E msg \in Msgs : ChatStart(r2, req[r1].session_id, msg))

\* C8: a request in flight does not stall other sessions: while a chat request
\* waits on a provider call, a request for another session can start.
C8_NoStall ==
    \A r1 \in Reqs, r2 \in Reqs :
        (r1 # r2 /\ req[r1].pc \in {"rewrite", "retrieve", "generate"}
            /\ req[r2].pc = "idle") =>
            \A sid \in AllIds \ {req[r1].session_id} :
                ENABLED (\E msg \in Msgs : ChatStart(r2, sid, msg))

\* A chat request that has started.
Started(r) == req[r].pc = "idle" /\ req'[r].pc # "idle"

\* C9: a session is created lazily, with an empty history, by the first
\* get-or-create for its id; until it is deleted every later get-or-create
\* returns that same session with the history accumulated so far.
C9_LazyCreation ==
    [][/\ \A sid \in DOMAIN conversation_sessions' \ DOMAIN conversation_sessions :
            /\ HistoryOf(sid)' = <<>>
            /\ \E r \in Reqs :
                /\ req[r].pc = "create" /\ req[r].session_id = sid
                /\ req'[r].chatbot = conversation_sessions'[sid]
       /\ \A sid \in DOMAIN conversation_sessions \cap DOMAIN conversation_sessions' :
            conversation_sessions'[sid] = conversation_sessions[sid]
       /\ \A r \in Reqs :
            (Started(r) /\ req'[r].session_id \in DOMAIN conversation_sessions) =>
                /\ req'[r].chatbot = conversation_sessions[req'[r].session_id]
                /\ req'[r].history0 = HistoryOf(req'[r].session_id)
                /\ UNCHANGED <<conversation_sessions, chat_history>>]_vars

\* A request has been given an existing session with its accumulated history.
C9_Witness ==
    \E r \in Reqs :
        /\ req[r].pc = "rewrite"
        /\ req[r].chatbot = conversation_sessions[req[r].session_id]
        /\ Len(chat_history[req[r].chatbot]) = 2

\* C10: clear returns true exactly when the session existed; an existing
\* session keeps its place in the store with an empty history (also when the
\* history was empty already), and no session is created for an unknown id.
C10_Clear ==
    [][\A sid \in AllIds :
          (last = NoRet /\ last'.op = "clear" /\ last'.sid = sid) =>
              /\ last'.ok = (sid \in DOMAIN conversation_sessions)
              /\ conversation_sessions' = conversation_sessions
              /\ sid \in DOMAIN conversation_sessions =>
                    /\ HistoryOf(sid)' = <<>>
                    /\ sid \in GetAllSessions'
                    /\ GetSessionInfo(sid)'.history_length = 0
              /\ \A other \in AllIds \ {sid} : HistoryOf(other)' = HistoryOf(other)]_vars

\* A clear has returned true: its session is still in the store, history empty.
C10_Witness ==
    /\ last.op = "clear"
    /\ last.ok
    /\ HistoryOf(last.sid) = <<>>
    /\ last.sid \in DOMAIN conversation_sessions

\* C11: delete_session(sid) answers true exactly when the session existed;
\* afterwards the id is not listed and get_session_info finds nothing for it, so
\* its history is gone; and the call itself leaves the collection as it found
\* it, record for record.
C11_Delete ==
    [][\A sid \in AllIds :
          (last = NoRet /\ last'.op = "remove_session" /\ last'.sid = sid) =>
              /\ last'.chat_deleted = (sid \in DOMAIN conversation_sessions)
              /\ sid \notin GetAllSessions'
              /\ GetSessionInfo(sid)' = Null
              /\ last'.index_after_delete = index]_vars

\* A session with one turn and a record of its own in the collection was deleted.
C11_Witness ==
    /\ last.op = "remove_session"
    /\ last.chat_deleted
    /\ last.index_after_delete # {}
    /\ \E d \in last.index_after_delete : d.session_id = last.sid
    /\ last.sid \notin GetAllSessions

\* What the session commands act on.
core == <<conversation_sessions, chat_history, index, docs_files, cloud_files>>

\* The state each command leaves for the id it names.
Cleared(sid) ==
    sid \in DOMAIN conversation_sessions => chat_history[conversation_sessions[sid]] = <<>>

NoFiles(sid) ==
    /\ \A f \in docs_files \cup cloud_files : f[1] # sid
    /\ \A d \in index : d.session_id # sid

Gone(sid) == sid \notin DOMAIN conversation_sessions /\ NoFiles(sid)

\* C12: clear_history, delete_session and the bulk file deletion are idempotent.
\* Each leaves the state it aims at for its id (history empty; session, files and
\* records gone; files and records gone), and a command that finds that state
\* changes nothing: the repeated delete answers 404 "not found" with nothing
\* deleted, the repeated clear answers as the first did, the repeated file
\* deletion counts 0 files.
C12_Idempotent ==
    [][\A sid \in AllIds :
          (last = NoRet /\ last'.op \in {"clear", "remove_session", "delete_files"}
                        /\ last'.sid = sid) =>
              /\ last'.op = "clear" =>
                    /\ Cleared(sid)'
                    /\ Cleared(sid) =>
                          /\ UNCHANGED core
                          /\ last'.ok = (sid \in DOMAIN conversation_sessions)
              /\ last'.op = "remove_session" =>
                    /\ Gone(sid)'
                    /\ Gone(sid) =>
                          /\ UNCHANGED core
                          /\ last'.status = 404
                          /\ ~last'.chat_deleted
                          /\ last'.files_deleted = 0
              /\ last'.op = "delete_files" =>
                    /\ NoFiles(sid)'
                    /\ NoFiles(sid) =>
                          /\ UNCHANGED core
                          /\ last'.files_deleted = 0]_vars

\* A delete answered 404 for an id that has nothing left, beside another session
\* that keeps its history and its records.
C12_Witness ==
    /\ last.op = "remove_session"
    /\ last.status = 404
    /\ Gone(last.sid)
    /\ \E other \in DOMAIN conversation_sessions :
          /\ chat_history[conversation_sessions[other]] # <<>>
          /\ \E d \in index : d.session_id = other

\* C13: in the response of every verbose chat call with requested k, num_sources
\* is the length of sources, lies between 0 and k, and is at most the number of
\* records the collection holds (the sources are distinct records of it).
C13_SourceBounds ==
    \A r \in Reqs :
        (req[r].pc = "done" /\ req[r].verbose) =>
            LET body == last.body
            IN  /\ body.num_sources = Len(body.sources)
                /\ 0 <= body.num_sources
                /\ body.num_sources <= req[r].k
                /\ body.num_sources <= Cardinality(index)
                /\ Range(body.sources) \subseteq index
                /\ Cardinality(Range(body.sources)) = Len(body.sources)

\* A verbose call with k = 1 over a collection of two records returned one source.
C13_Witness ==
    \E r \in Reqs :
        /\ req[r].pc = "done"
        /\ req[r].verbose
        /\ req[r].k = 1
        /\ Cardinality(index) = 2
        /\ last.body.num_sources = 1

\* C14: every successful chat result carries the caller's message, the answer,
\* and the session_id of the session whose history took the turn: the caller's
\* id if one was sent, otherwise a generated id that named no session before.
\* contextualized_question, sources and num_sources are present exactly when the
\* call was verbose, and contextualized_question is null exactly when the search
\* question equals the message (otherwise it is the search question).
C14_ChatResult ==
    \A r \in Reqs :
        req[r].pc = "done" =>
            LET body == last.body
                rq == req[r]
            IN  /\ last.op = "chat" /\ last.status = 200
                /\ body.message = rq.message
                /\ body.session_id = rq.session_id
                /\ IF rq.requested # None
                      THEN body.session_id = rq.requested
                      ELSE body.session_id \in GenIds /\ ~rq.existed0
                /\ body.session_id \in DOMAIN conversation_sessions
                /\ HistoryOf(body.session_id) =
                       rq.history0 \o <<HumanMessage(body.message),
                                        AIMessage(body.answer)>>
                /\ IF rq.verbose
                      THEN /\ DOMAIN body = {"message", "answer", "session_id",
                                             "contextualized_question", "sources",
                                             "num_sources"}
                           /\ (body.contextualized_question = Null) <=>
                                  (rq.search_question = rq.message)
                           /\ body.contextualized_question # Null =>
                                  body.contextualized_question = rq.search_question
                      ELSE DOMAIN body = {"message", "answer", "session_id"}

\* A verbose follow-up whose rewrite came back as the message with a leading
\* blank: the stripped search question equals the message, and the response
\* carries no contextualized question.
C14_Witness ==
    \E r \in Reqs :
        /\ req[r].pc = "done"
        /\ req[r].verbose
        /\ req[r].history0 # <<>>
        /\ req[r].search_question = req[r].message
        /\ last.body.contextualized_question = Null
        /\ last.body.num_sources > 0

\* A history of whole turns: even length, human at the odd positions and ai at
\* the even ones.
Alternates(h) ==
    /\ Len(h) % 2 = 0
    /\ \A i \in 1..Len(h) : h[i].role = IF i % 2 = 1 THEN "human" ELSE "ai"

\* C19: in every reachable state, whatever chat calls are in progress, the
\* history of every chatbot has even length and alternates human, ai, starting
\* with human: the two appends of a turn are made together, after the last
\* provider call of the turn.
C19_Alternates == \A i \in DOMAIN chat_history : Alternates(chat_history[i])

\* A session holds two whole turns.
C19_Witness ==
    \E sid \in DOMAIN conversation_sessions : Len(HistoryOf(sid)) = 4

\* C15: once DELETE /chat/session/{id} has returned with both of its cleanups
\* completed, the statistics of the id report no embeddings and no files,
\* whatever was ingested under it: get_session_stats counts no record and no
\* saved PDF, and GET /files/{id} lists no Cloudinary file.
C15_DeleteThenStats ==
    (last.op = "remove_session" /\ last.cloud_ok /\ last.cleanup = "ok") =>
        /\ GetSessionStats(last.sid).embeddings_count = 0
        /\ GetSessionStats(last.sid).files_count = 0
        /\ ListSessionFiles(last.sid).embeddings_count = 0
        /\ ListSessionFiles(last.sid).files_count = 0

\* The delete removed records and a Cloudinary file of the id, and records of
\* another id remain.
C15_Witness ==
    /\ last.op = "remove_session"
    /\ last.cloud_ok /\ last.cleanup = "ok"
    /\ last.embeddings_deleted > 0
    /\ last.files_deleted > 0
    /\ index # {}

\* The records of the collection tagged with a session id.
Tagged(idx, sid) == {d \in idx : d.session_id = sid}

\* C16: a bulk deletion for session X (DELETE /files/X, and the same cleanup
\* inside DELETE /chat/session/X) removes exactly the records tagged X: when the
\* cleanup has completed no record tagged X remains, and in every case every
\* record tagged with another id is still there, unchanged, and nothing is added.
C16_BulkDelete ==
    [][\A sid \in AllIds :
          (last = NoRet /\ last'.op \in {"delete_files", "remove_session"}
                        /\ last'.sid = sid) =>
              /\ index \ Tagged(index, sid) = index' \ Tagged(index', sid)
              /\ index' \subseteq index
              /\ last'.cleanup = "ok" =>
                    /\ Tagged(index', sid) = {}
                    /\ last'.embeddings_deleted = Cardinality(Tagged(index, sid))]_vars

\* DELETE /files removed the one record of its id and left the record of the
\* other id.
C16_Witness ==
    /\ last.op = "delete_files"
    /\ last.cleanup = "ok"
    /\ last.embeddings_deleted = 1
    /\ Tagged(index, last.sid) = {}
    /\ Cardinality(index) = 1

\* C17: an ingest that adds nothing to the collection (no text extracted, the
\* embedding or the upsert failed, the file could not be saved, no chunk to add)
\* is reported as a failure with a reason and chunks_created = 0; an ingest
\* reported as success added exactly chunks_created records, and at least one.
\* (chunks_created of a failure is the field of process_uploaded_pdf's result;
\* the HTTP answer is a 500 with the reason as detail.)
C17_IngestReport ==
    [][(last = NoRet /\ last'.op = "upload") =>
          LET added == index' \ index
          IN  /\ index \subseteq index'
              /\ (added = {}) <=> (last'.status # 200)
              /\ last'.status = 200 =>
                    /\ last'.chunks_created = Cardinality(added)
                    /\ last'.chunks_created > 0
              /\ last'.status # 200 =>
                    /\ last'.chunks_created = 0
                    /\ last'.detail # ""]_vars

\* The upsert of a saved PDF failed: a 500 with the reason, no chunk counted,
\* no record of the id in the collection.
C17_Witness ==
    /\ last.op = "upload"
    /\ last.status = 500
    /\ last.detail = "Failed to add to vector store"
    /\ last.chunks_created = 0
    /\ <<last.sid, last.filename>> \in docs_files
    /\ Tagged(index, last.sid) = {}

\* C18: an ingest that yields n chunks adds n records whose chunk_index values
\* are 0..n-1, each exactly once and in text order (chunk_index i is on the
\* chunk at place i+1 of the text); every one has total_chunks = n and carries
\* the session id and the filename of the upload.
C18_ChunkMetadata ==
    [][(last = NoRet /\ last'.op = "upload" /\ last'.status = 200) =>
          LET added == index' \ index
              n == last'.chunks_created
          IN  /\ Cardinality(added) = n
              /\ \A i \in 0..(n - 1) :
                    Cardinality({d \in added : d.chunk_index = i}) = 1
              /\ \A d \in added :
                    /\ d.chunk_index \in 0..(n - 1)
                    /\ d.content = SplitText(n)[d.chunk_index + 1]
                    /\ d.total_chunks = n
                    /\ d.session_id = last'.sid
                    /\ d.filename = last'.filename]_vars

\* An upload of two chunks: the first chunk of the text has index 0, the second
\* index 1, both of 2.
C18_Witness ==
    /\ last.op = "upload"
    /\ last.status = 200
    /\ last.chunks_created = 2
    /\ \E d0, d1 \in index :
          /\ d0.session_id = last.sid /\ d1.session_id = last.sid
          /\ d0.content = 1 /\ d0.chunk_index = 0 /\ d0.total_chunks = 2
          /\ d1.content = 2 /\ d1.chunk_index = 1 /\ d1.total_chunks = 2

\* C20: a clear_history of a session can complete while a chat turn of that
\* session is waiting on a provider call (the turn is not cancelled and appends
\* its pair to the cleared history when it finishes): in every state with a turn
\* waiting on its rewrite, retrieval or generation call, POST /chat/clear for the
\* turn's session can run.
C20_ClearDuringTurn ==
    \A r \in Reqs :
        req[r].pc \in {"rewrite", "retrieve", "generate"} =>
            ENABLED ClearHistory(req[r].session_id)

\* C21: DELETE /chat/session/{id} runs the Cloudinary cleanup and the embedding
\* cleanup for the id whatever it answers, and it answers 404 "not found"
\* exactly when no chat session existed for the id and no Cloudinary file was
\* deleted, so also for an id that had only records in the collection, which it
\* has just deleted.
C21_RemoveNotFound ==
    [][\A sid \in AllIds :
          (last = NoRet /\ last'.op = "remove_session" /\ last'.sid = sid) =>
              /\ last'.status \in {200, 404}
              /\ last'.files_deleted = Cardinality(cloud_files \ cloud_files')
              /\ (last'.status = 404) <=>
                    /\ sid \notin DOMAIN conversation_sessions
                    /\ cloud_files' = cloud_files
              /\ last'.cloud_ok => \A f \in cloud_files' : f[1] # sid
              /\ last'.cleanup = "ok" =>
                    /\ Tagged(index', sid) = {}
                    /\ last'.embeddings_deleted = Cardinality(Tagged(index, sid))
                    /\ \A f \in docs_files' : f[1] # sid]_vars

\* A 404 for an id without chat session and without Cloudinary file, whose
\* records the same request deleted.
C21_Witness ==
    /\ last.op = "remove_session"
    /\ last.status = 404
    /\ ~last.chat_deleted
    /\ last.files_deleted = 0
    /\ last.embeddings_deleted > 0
    /\ Tagged(index, last.sid) = {}

====
